---- MODULE Spec2Model ----
(***************************************************************************)
(* Model of git-delete-branches (src/main.rs): the top-level main, the     *)
(* branch lister get_branches, the per-branch step act_on_branch and the   *)
(* prompt get_branch_action_from_user, run against a git backend that maps *)
(* local branch names to commits.                                          *)
(*                                                                         *)
(* Writes to stdout are taken to succeed.  Every other fallible call       *)
(* (opening the repository, enabling raw mode, listing, reading a byte,    *)
(* deleting, resolving a commit, creating a branch) may fail.              *)
(***************************************************************************)
EXTENDS Integers, Sequences, FiniteSets, TLC

VARIABLES
    pc,              \* where the process is: open, enable, list, loop, read, cleanup, exited
    backend,         \* the repository's local branches: name -> commit, or Absent
    head,            \* the name of the checked-out branch, or NoHead (detached)
    branches,        \* the Vec<Branch> main iterates over
    idx,             \* position of the for loop in branches (1-based)
    deleted_branch,  \* main's Option<Branch>
    raw,             \* terminal raw mode is on
    enables,         \* number of successful enable_raw_mode calls
    disables,        \* number of disable_raw_mode calls
    result,          \* value of the closure in main: Running, Ok or an error
    status,          \* process exit status, NoStatus while running
    out,             \* last status line written to stdout
    prompt,          \* last prompt written to stdout, NoPrompt before the first
    act_depth,       \* live frames of act_on_branch
    ask_depth,       \* live frames of get_branch_action_from_user
    nread,           \* number of calls of stdin.next() that have returned
    last_read,       \* what the last of them returned: a byte, NoByte or ReadFailed
    keep_hist,       \* history: whether this run records hist
    hist,            \* history: everything stdin.next() returned, oldest first
    before_delete,   \* history: the backend just before the last successful delete
    pending,         \* history: names deleted since the last undo, oldest first
    lost             \* history: names deleted and then displaced by a later delete

vars == <<pc, backend, head, branches, idx, deleted_branch, raw, enables,
          disables, result, status, out, prompt, act_depth, ask_depth,
          nread, last_read, keep_hist, hist, before_delete, pending, lost>>

\* the history variables
ghost == <<before_delete, pending, lost>>

\* the input read so far
input == <<nread, last_read, keep_hist, hist>>

----------------------------------------------------------------------------
(* Bounds *)

\* stdin.next() is called at most this many times in a run
MaxKeys == 4

----------------------------------------------------------------------------
(* The repository *)

Names == {"master", "a", "b", "c"}

Absent == "absent"
NoHead == "nohead"
None == [none |-> TRUE]
NoPrompt == [noprompt |-> TRUE]
NoStatus == -1

\* The commits of the object database: author time in seconds, the author's
\* UTC offset in minutes, and the object id.
Commits == {"K1", "K2", "K3"}

Seconds(k) == CASE k = "K1" -> 0
                [] k = "K2" -> 60
                [] k = "K3" -> 120

OffsetMinutes(k) == CASE k = "K1" -> 2
                      [] k = "K2" -> -1
                      [] k = "K3" -> 0

OidHexLen == 40

\* Oid::to_string: 40 hex digits.  K1 and K2 differ only in the last digit.
OidToString(k) ==
    [i \in 1..OidHexLen |->
        CASE k = "K1" -> IF i = OidHexLen THEN "1" ELSE "a"
          [] k = "K2" -> IF i = OidHexLen THEN "2" ELSE "a"
          [] k = "K3" -> "b"]

----------------------------------------------------------------------------
(* get_branches *)

SecondsPerMinute == 60

\* NaiveDateTime::from_timestamp(seconds, 0) + Duration::minutes(offset)
CommitTimeNoOffset(k) == Seconds(k)

CommitTime(k) == Seconds(k) + SecondsPerMinute * OffsetMinutes(k)

\* the closure of .map(): one Branch per local branch
MakeBranchNoHead(n, be, hd) ==
    [name |-> n, id |-> be[n], time |-> CommitTime(be[n]), is_head |-> FALSE]

MakeBranch(n, be, hd) ==
    [name |-> n, id |-> be[n], time |-> CommitTime(be[n]), is_head |-> (n = hd)]

\* the closure of .filter()
FilterNothing(name) == TRUE

Filter(name) == name # "master"

Listed(be, hd) ==
    {MakeBranch(n, be, hd) : n \in {m \in Names : be[m] # Absent /\ Filter(m)}}

\* sort_unstable_by_key(|branch| branch.time)
SortKey(b) == b.time

IsSortedByKey(q) ==
    \A i \in 1..Len(q) : \A j \in 1..Len(q) : i < j => SortKey(q[i]) <= SortKey(q[j])

\* every order an unstable sort by key may leave the set S in
SortedOrders(S) ==
    {q \in [1..Cardinality(S) -> S] :
        /\ \A i \in 1..Cardinality(S) : \A j \in 1..Cardinality(S) :
               i # j => q[i] # q[j]
        /\ IsSortedByKey(q)}

----------------------------------------------------------------------------
(* get_branch_action_from_user *)

Key_q == 113
Key_d == 100
Key_k == 107
Key_u == 117
Key_help == 63
Key_x == 120
Key_K == 75

\* the bytes stdin may deliver
Bytes == {Key_q, Key_d, Key_k, Key_u, Key_help, Key_x, Key_K}

\* char::from(u8): the code point with the byte's value
CharFrom(byte) == byte % 256

IdPrefixLen == 7

\* the metadata shown by the prompt
Display(b) ==
    [name |-> b.name,
     id   |-> SubSeq(OidToString(b.id), 1, IdPrefixLen),
     time |-> b.time]

\* values of Result<(), Error>, and Running while the closure has not returned
Running == [kind |-> "Running"]
Ok == [kind |-> "Ok"]
Panicked == [kind |-> "Panic"]
GitError == [kind |-> "GitError"]
CrosstermError == [kind |-> "CrosstermError"]
InvalidInput(c) == [kind |-> "InvalidInput", char |-> c]

\* impl TryFrom<char> for BranchAction
TryFromLenient(c) ==
    CASE c = Key_q -> [action |-> "Quit"]
      [] c = Key_d -> [action |-> "Delete"]
      [] c = Key_u -> [action |-> "Undo"]
      [] OTHER     -> [action |-> "Keep"]

TryFromUndoKeeps(c) ==
    CASE c = Key_q -> [action |-> "Quit"]
      [] c = Key_d -> [action |-> "Delete"]
      [] c = Key_k -> [action |-> "Keep"]
      [] c = Key_u -> [action |-> "Keep"]
      [] OTHER     -> [action |-> "Err", error |-> InvalidInput(c)]

TryFrom(c) ==
    CASE c = Key_q -> [action |-> "Quit"]
      [] c = Key_d -> [action |-> "Delete"]
      [] c = Key_k -> [action |-> "Keep"]
      [] c = Key_u -> [action |-> "Undo"]
      [] OTHER     -> [action |-> "Err", error |-> InvalidInput(c)]

----------------------------------------------------------------------------
(* Initial state: any repository over Names, any checked-out branch *)

\* stdin.next() returned None
NoByte == 0

\* stdin.next() returned Some(Err(e))
ReadFailed == -1

Start(repos, keep) ==
    /\ pc = "open"
    /\ backend \in repos
    /\ head \in {n \in Names : backend[n] # Absent} \cup {NoHead}
    /\ branches = <<>>
    /\ idx = 0
    /\ deleted_branch = None
    /\ raw = FALSE
    /\ enables = 0
    /\ disables = 0
    /\ result = Running
    /\ status = NoStatus
    /\ out = [line |-> "none"]
    /\ prompt = NoPrompt
    /\ act_depth = 0
    /\ ask_depth = 0
    /\ nread = 0
    /\ last_read = NoByte
    /\ keep_hist = keep
    /\ hist = <<>>
    /\ before_delete = backend
    /\ pending = <<>>
    /\ lost = {}

\* the repositories: a and b on any commit or absent, c and master on K3 or
\* absent
Repos ==
    {be \in [Names -> Commits \cup {Absent}] :
        be["master"] \in {"K3", Absent} /\ be["c"] \in {"K3", Absent}}

Init == Start(Repos, FALSE)

----------------------------------------------------------------------------
(* main, up to the review loop *)

\* the closure returns Err(e) through a `?`
Fail(e) ==
    /\ result' = e
    /\ pc' = "cleanup"

\* Repository::open_from_env()?
OpenOk ==
    /\ pc = "open"
    /\ pc' = "enable"
    /\ UNCHANGED <<backend, head, branches, idx, deleted_branch, raw, enables,
                   disables, result, status, out, prompt, act_depth, ask_depth,
                   input, ghost>>

OpenFail ==
    /\ pc = "open"
    /\ Fail(GitError)
    /\ UNCHANGED <<backend, head, branches, idx, deleted_branch, raw, enables,
                   disables, status, out, prompt, act_depth, ask_depth,
                   input, ghost>>

\* crossterm::terminal::enable_raw_mode()?
EnableOk ==
    /\ pc = "enable"
    /\ raw' = TRUE
    /\ enables' = enables + 1
    /\ pc' = "list"
    /\ UNCHANGED <<backend, head, branches, idx, deleted_branch,
                   disables, result, status, out, prompt, act_depth, ask_depth,
                   input, ghost>>

EnableFail ==
    /\ pc = "enable"
    /\ Fail(CrosstermError)
    /\ UNCHANGED <<backend, head, branches, idx, deleted_branch, raw, enables,
                   disables, status, out, prompt, act_depth, ask_depth,
                   input, ghost>>

\* get_branches(&repo)? returned Ok, then lines 16-19
GetBranchesOk ==
    /\ pc = "list"
    /\ \E q \in SortedOrders(Listed(backend, head)) :
          /\ branches' = q
          /\ IF q = <<>>
                THEN /\ out' = [line |-> "No branches found (master ignored)."]
                     /\ result' = Ok
                     /\ pc' = "cleanup"
                     /\ idx' = idx
                ELSE /\ out' = out
                     /\ result' = result
                     /\ pc' = "loop"
                     /\ idx' = 1
    /\ deleted_branch' = None
    /\ UNCHANGED <<backend, head, raw, enables, disables, status, prompt,
                   act_depth, ask_depth, input, ghost>>

\* repo.branches(Some(BranchType::Local))? failed
GetBranchesErr ==
    /\ pc = "list"
    /\ Fail(GitError)
    /\ UNCHANGED <<backend, head, branches, idx, deleted_branch, raw, enables,
                   disables, status, out, prompt, act_depth, ask_depth,
                   input, ghost>>

PanicStatus == 101

\* One branch fails in the .map() closure (unreadable entry, name_bytes,
\* peel_to_commit or from_utf8): the .filter() closure unwraps that Err and
\* panics; the panic unwinds out of main, past line 29.
GetBranchesPanic ==
    /\ pc = "list"
    /\ \E n \in Names : backend[n] # Absent
    /\ result' = Panicked
    /\ status' = PanicStatus
    /\ pc' = "exited"
    /\ UNCHANGED <<backend, head, branches, idx, deleted_branch, raw, enables,
                   disables, out, prompt, act_depth, ask_depth,
                   input, ghost>>

\* lines 29-37: disable_raw_mode().ok(), then report and exit
ExitStatusZero(r) == 0

ExitStatus(r) == IF r = Ok THEN 0 ELSE 1

Finish ==
    /\ pc = "cleanup"
    /\ raw' = FALSE
    /\ disables' = disables + 1
    /\ status' = ExitStatus(result)
    /\ pc' = "exited"
    /\ UNCHANGED <<backend, head, branches, idx, deleted_branch, enables,
                   result, out, prompt, act_depth, ask_depth,
                   input, ghost>>

----------------------------------------------------------------------------
(* The review loop: main's for loop and act_on_branch *)

Branch == branches[idx]

\* the for loop has consumed the whole Vec: the closure returns Ok(())
LoopDone ==
    /\ pc = "loop"
    /\ idx > Len(branches)
    /\ result' = Ok
    /\ pc' = "cleanup"
    /\ UNCHANGED <<backend, head, branches, idx, deleted_branch, raw, enables,
                   disables, status, out, prompt, act_depth, ask_depth,
                   input, ghost>>

\* act_on_branch on the current branch: lines 47-53, then back to the for loop
SkipCurrent ==
    /\ pc = "loop"
    /\ idx <= Len(branches)
    /\ Branch.is_head
    /\ out' = [line |-> "Ignoring", name |-> Branch.name]
    /\ idx' = idx + 1
    /\ UNCHANGED <<pc, backend, head, branches, deleted_branch, raw, enables,
                   disables, result, status, prompt, act_depth, ask_depth,
                   input, ghost>>

\* act_on_branch on any other branch calls get_branch_action_from_user, which
\* writes the prompt (lines 97-104) and blocks in stdin.next()
Prompt ==
    /\ pc = "loop"
    /\ idx <= Len(branches)
    /\ ~Branch.is_head
    /\ prompt' = Display(Branch)
    /\ act_depth' = 1
    /\ ask_depth' = 1
    /\ pc' = "read"
    /\ UNCHANGED <<backend, head, branches, idx, deleted_branch, raw, enables,
                   disables, result, status, out, input, ghost>>

\* stdin.next() returns
Returns(x) ==
    /\ pc = "read"
    /\ nread < MaxKeys
    /\ nread' = nread + 1
    /\ last_read' = x
    /\ hist' = IF keep_hist THEN Append(hist, x) ELSE hist
    /\ UNCHANGED keep_hist

\* act_on_branch returned Ok(()) to the for loop, which takes the next branch
NextBranch ==
    /\ idx' = idx + 1
    /\ act_depth' = 0
    /\ ask_depth' = 0
    /\ pc' = "loop"

\* None: line 108 calls get_branch_action_from_user again
ReadNoneIsEnd ==
    /\ Returns(NoByte)
    /\ result' = Ok
    /\ pc' = "cleanup"
    /\ UNCHANGED <<backend, head, branches, idx, deleted_branch, raw,
                   enables, disables, status, out, prompt, act_depth,
                   ask_depth, ghost>>

ReadNone ==
    /\ Returns(NoByte)
    /\ prompt' = Display(Branch)
    /\ ask_depth' = ask_depth + 1
    /\ UNCHANGED <<pc, backend, head, branches, idx, deleted_branch, raw,
                   enables, disables, result, status, out, act_depth,
                   ghost>>

\* Some(Err(e)): `byte?` returns the io error
ReadErr ==
    /\ Returns(ReadFailed)
    /\ Fail(CrosstermError)
    /\ UNCHANGED <<backend, head, branches, idx, deleted_branch, raw, enables,
                   disables, status, out, prompt, act_depth, ask_depth,
                   ghost>>

\* line 114
IsHelpNever(c) == FALSE

IsHelp(c) == c = Key_help

\* '?': the legend, then line 122 calls get_branch_action_from_user again
Help ==
    /\ \E byte \in Bytes :
          /\ IsHelp(CharFrom(byte))
          /\ Returns(byte)
    /\ out' = [line |-> "? - Show this help text"]
    /\ prompt' = Display(Branch)
    /\ ask_depth' = ask_depth + 1
    /\ UNCHANGED <<pc, backend, head, branches, idx, deleted_branch, raw,
                   enables, disables, result, status, act_depth,
                   ghost>>

\* the byte read is not '?' and TryFrom maps it to action a
Reads(byte, a) ==
    /\ ~IsHelp(CharFrom(byte))
    /\ TryFrom(CharFrom(byte)) = a
    /\ Returns(byte)

\* Err(InvalidInput(c)) goes up through every `?`
Invalid ==
    /\ \E byte \in Bytes :
          /\ Reads(byte, TryFrom(CharFrom(byte)))
          /\ TryFrom(CharFrom(byte)).action = "Err"
          /\ Fail(TryFrom(CharFrom(byte)).error)
    /\ UNCHANGED <<backend, head, branches, idx, deleted_branch, raw, enables,
                   disables, status, out, prompt, act_depth, ask_depth,
                   ghost>>

\* BranchAction::Quit, lines 55-58: `return Ok(())` leaves act_on_branch
Quit ==
    /\ \E byte \in Bytes : Reads(byte, [action |-> "Quit"])
    /\ out' = [line |-> "Quitting..."]
    /\ NextBranch
    /\ UNCHANGED <<backend, head, branches, deleted_branch, raw, enables,
                   disables, result, status, prompt, ghost>>

\* BranchAction::Keep, lines 59-61
Keep ==
    /\ \E byte \in Bytes : Reads(byte, [action |-> "Keep"])
    /\ NextBranch
    /\ UNCHANGED <<backend, head, branches, deleted_branch, raw, enables,
                   disables, result, status, out, prompt, ghost>>

\* Branch::delete, lines 170-174
RemovedNothing(be, b) == be

Removed(be, b) == [be EXCEPT ![b.name] = Absent]

\* line 70
StoredFirst(old, b) == IF old = None THEN b ELSE old

StoredNothing(old, b) == old

Stored(old, b) == b

\* BranchAction::Delete, lines 62-71
Delete ==
    /\ \E byte \in Bytes : Reads(byte, [action |-> "Delete"])
    /\ backend' = Removed(backend, Branch)
    /\ out' = [line |-> "Deleted branch", name |-> Branch.name]
    /\ deleted_branch' = Stored(deleted_branch, Branch)
    /\ before_delete' = backend
    /\ pending' = Append(pending, Branch.name)
    /\ lost' = lost \cup {pending[i] : i \in 1..Len(pending)}
    /\ NextBranch
    /\ UNCHANGED <<head, branches, raw, enables, disables, result, status,
                   prompt>>

\* branch.delete()? failed
DeleteFail ==
    /\ \E byte \in Bytes : Reads(byte, [action |-> "Delete"])
    /\ Fail(GitError)
    /\ UNCHANGED <<backend, head, branches, idx, deleted_branch, raw, enables,
                   disables, status, out, prompt, act_depth, ask_depth,
                   ghost>>

\* repo.branch(name, commit, false): the branch is created, never overwritten
CanCreate(be, d) == be[d.name] = Absent

CreatedNothing(be, d) == be

CreatedElsewhere(be, d) == [be EXCEPT ![d.name] = "K3"]

Created(be, d) == [be EXCEPT ![d.name] = d.id]

\* line 84: act_on_branch calls itself on the same branch, which is not the
\* current one, so the prompt is written again
AgainNextBranch ==
    /\ NextBranch
    /\ UNCHANGED prompt

Again ==
    /\ prompt' = Display(Branch)
    /\ act_depth' = act_depth + 1
    /\ ask_depth' = 1
    /\ UNCHANGED <<pc, idx>>

\* BranchAction::Undo with Some(branch), lines 73-78 and 82-84
Undo ==
    /\ \E byte \in Bytes : Reads(byte, [action |-> "Undo"])
    /\ deleted_branch # None
    /\ CanCreate(backend, deleted_branch)
    /\ out' = [line |-> "Undoing deletion of branch", name |-> deleted_branch.name]
    /\ backend' = Created(backend, deleted_branch)
    /\ deleted_branch' = None
    /\ pending' = <<>>
    /\ Again
    /\ UNCHANGED <<head, branches, raw, enables, disables, result, status,
                   before_delete, lost>>

\* repo.find_commit(branch.id)? or repo.branch(..)? failed
UndoFail ==
    /\ \E byte \in Bytes : Reads(byte, [action |-> "Undo"])
    /\ deleted_branch # None
    /\ out' = [line |-> "Undoing deletion of branch", name |-> deleted_branch.name]
    /\ Fail(GitError)
    /\ UNCHANGED <<backend, head, branches, idx, deleted_branch, raw, enables,
                   disables, status, prompt, act_depth, ask_depth,
                   ghost>>

\* BranchAction::Undo with None, lines 79-84
UndoNothing ==
    /\ \E byte \in Bytes : Reads(byte, [action |-> "Undo"])
    /\ deleted_branch = None
    /\ out' = [line |-> "No branch to undo deletion of"]
    /\ deleted_branch' = None
    /\ pending' = <<>>
    /\ Again
    /\ UNCHANGED <<backend, head, branches, raw, enables, disables, result,
                   status, before_delete, lost>>

----------------------------------------------------------------------------

Next ==
    \/ OpenOk \/ OpenFail
    \/ EnableOk \/ EnableFail
    \/ GetBranchesOk \/ GetBranchesErr \/ GetBranchesPanic
    \/ LoopDone \/ SkipCurrent \/ Prompt
    \/ ReadNone \/ ReadErr \/ Help \/ Invalid
    \/ Quit \/ Keep \/ Delete \/ DeleteFail
    \/ Undo \/ UndoFail \/ UndoNothing
    \/ Finish

Spec == Init /\ [][Next]_vars

\* The runs that record their input, from the repositories in which a is
\* older than b and c.
LoggedRepos ==
    {be \in Repos : /\ be["a"] \in {"K2", Absent}
                    /\ be["b"] \in {"K1", Absent}
                    /\ be["c"] \in {"K3", Absent}}

InitLogged == Start(LoggedRepos, TRUE)

SpecLogged == InitLogged /\ [][Next]_vars

\* The same repositories, without the record, for the properties of whole
\* runs.  The process is the only thread and takes its next step whenever it
\* has one; a read returns as long as stdin delivers, that is MaxKeys times.
InitFair == Start(LoggedRepos, FALSE)

SpecFair == InitFair /\ [][Next]_vars /\ WF_vars(Next)

----------------------------------------------------------------------------
(* Vocabulary of the properties *)

\* stdin.next() has just returned x
JustRead(x) == nread' = nread + 1 /\ last_read' = x

Last(q) == q[Len(q)]

IsPrefix(p, q) == Len(p) <= Len(q) /\ SubSeq(q, 1, Len(p)) = p

\* the closure has not returned an error
NoError == result \in {Running, Ok}

----------------------------------------------------------------------------
(* C1 *)

\* C1: once 'q' is answered ("Quitting..." is the last line written), nothing
\* more happens but the exit: no prompt or status line is written, no byte is
\* read, the backend is not modified, and the exit status is 0.
QuitEndsReview ==
    [][out.line = "Quitting..." =>
          /\ prompt' = prompt
          /\ out' = out
          /\ nread' = nread
          /\ backend' = backend
          /\ (pc' = "exited" => status' = 0)]_vars

----------------------------------------------------------------------------
(* C2 *)

\* the queue is [a, b], a older than b, neither is the current branch
Scenario ==
    /\ keep_hist
    /\ pc \notin {"open", "enable", "list"}
    /\ Len(branches) = 2
    /\ branches[1].name = "a" /\ ~branches[1].is_head
    /\ branches[2].name = "b" /\ ~branches[2].is_head
    /\ branches[1].time < branches[2].time

ScenarioInput == <<Key_d, Key_u, Key_d, Key_q>>

\* the run is the scenario's, as far as it has got, and no call has failed
ScenarioRun == Scenario /\ IsPrefix(hist, ScenarioInput) /\ NoError

\* C2 as claimed: on d u d q, a is deleted, restored, deleted again, b is never
\* prompted and stays, and the process exits with 0 after the q.
ScenarioAsClaimed ==
    ScenarioRun =>
        /\ prompt # NoPrompt => prompt.name = "a"
        /\ Len(hist) = 1 => backend["a"] = Absent
        /\ Len(hist) = 2 => backend["a"] = "K2"
        /\ Len(hist) >= 3 => backend["a"] = Absent
        /\ backend["b"] = "K1"
        /\ pc = "exited" => hist = ScenarioInput /\ status = 0

\* C2 as amended: the first d deletes a and moves on to b; at b's prompt u
\* restores a and d deletes b; the queue is then exhausted, the q is never
\* read, and the process exits with 0 with a present and b absent.
ScenarioAsCoded ==
    ScenarioRun =>
        /\ Len(hist) <= 3
        /\ Len(hist) = 0 => backend["a"] = "K2" /\ backend["b"] = "K1"
        /\ Len(hist) = 1 =>
              /\ backend["a"] = Absent /\ backend["b"] = "K1"
              /\ deleted_branch # None /\ deleted_branch.name = "a"
              /\ pc = "read" => prompt.name = "b"
        /\ Len(hist) = 2 =>
              /\ backend["a"] = "K2" /\ backend["b"] = "K1"
              /\ deleted_branch = None
              /\ pc = "read" /\ prompt.name = "b"
        /\ Len(hist) = 3 =>
              /\ backend["a"] = "K2" /\ backend["b"] = Absent
              /\ pc \in {"loop", "cleanup", "exited"}
              /\ idx = 3
        /\ pc = "exited" => Len(hist) = 3 /\ status = 0

ScenarioDone ==
    /\ ScenarioRun
    /\ hist = <<Key_d, Key_u, Key_d>>
    /\ pc = "exited"
    /\ status = 0
    /\ backend["a"] = "K2" /\ backend["b"] = Absent

----------------------------------------------------------------------------
(* C3 *)

\* C3: when a branch has been deleted and not yet restored, a 'u' that is
\* carried out puts the backend back exactly as it was before that delete
\* (the branch is there again at its commit, every other branch as it was)
\* and leaves the Undo Buffer empty.  The case of the claim is the 'u' that
\* is the next action keystroke after the 'd'.
DeleteUndoRoundTrip ==
    [][(pending # <<>> /\ pc = "read" /\ JustRead(Key_u) /\ pc' = "read") =>
          /\ before_delete[Last(pending)] \in Commits
          /\ backend[Last(pending)] = Absent
          /\ backend'[Last(pending)] = before_delete[Last(pending)]
          /\ backend' = before_delete
          /\ deleted_branch' = None]_vars

\* d at the first branch, then u at the second
RoundTripDone ==
    /\ nread = 2 /\ idx = 2
    /\ last_read = Key_u
    /\ out.line = "Undoing deletion of branch"
    /\ pc = "read"
    /\ backend = before_delete
    /\ backend[out.name] \in Commits
    /\ deleted_branch = None

----------------------------------------------------------------------------
(* C4 *)

\* C4: (1) a branch whose record was displaced from the Undo Buffer by a later
\* delete is absent from the backend and not in the buffer, in every later
\* state; (2) after two or more deletes with no undo between them, a 'u' that
\* is carried out restores the last deleted branch and nothing else, and
\* empties the buffer; (3) a 'u' after that finds nothing to undo.
DisplacedStayAbsent ==
    \A n \in lost :
        /\ backend[n] = Absent
        /\ deleted_branch # None => deleted_branch.name # n

UndoRestoresLastOnly ==
    (Len(pending) >= 2 /\ pc = "read" /\ JustRead(Key_u) /\ pc' = "read") =>
        /\ backend' = [backend EXCEPT ![Last(pending)] = before_delete[Last(pending)]]
        /\ \A i \in 1..(Len(pending) - 1) : backend'[pending[i]] = Absent
        /\ deleted_branch' = None

SecondUndoFindsNothing ==
    (lost # {} /\ pending = <<>> /\ pc = "read" /\ JustRead(Key_u)) =>
        /\ out'.line = "No branch to undo deletion of"
        /\ backend' = backend

BufferDepthOne ==
    /\ []DisplacedStayAbsent
    /\ [][UndoRestoresLastOnly]_vars
    /\ [][SecondUndoFindsNothing]_vars

\* d, d at the first two branches, then u, u at the third
DepthOneDone ==
    /\ nread = 4 /\ idx = 3
    /\ last_read = Key_u
    /\ out.line = "No branch to undo deletion of"
    /\ lost = {branches[1].name}
    /\ backend[branches[1].name] = Absent
    /\ backend[branches[2].name] = branches[2].id
    /\ deleted_branch = None

----------------------------------------------------------------------------
(* C5 *)

\* C5: a 'u' read while the Undo Buffer is empty leaves the backend and the
\* buffer as they are, writes "No branch to undo deletion of", and prompts
\* for the same branch again: the queue does not advance.
UndoNothingIsNoOp ==
    [][(deleted_branch = None /\ pc = "read" /\ JustRead(Key_u)) =>
          /\ backend' = backend
          /\ deleted_branch' = None
          /\ out' = [line |-> "No branch to undo deletion of"]
          /\ idx' = idx /\ branches' = branches
          /\ pc' = "read"
          /\ prompt' = prompt
          /\ prompt'.name = branches[idx].name]_vars

UndoNothingDone ==
    /\ pc = "read"
    /\ last_read = Key_u
    /\ out.line = "No branch to undo deletion of"
    /\ deleted_branch = None
    /\ nread = 1 /\ idx = 2

----------------------------------------------------------------------------
(* C6 *)

\* C6: the checked-out branch is never prompted for and never deleted; when
\* the loop reaches it, at any queue position, it writes the "Ignoring" line
\* for it, reads no byte, leaves backend and Undo Buffer alone, writes no
\* prompt and moves to the next branch.
CurrentNeverOffered ==
    /\ prompt # NoPrompt => prompt.name # head
    /\ pc = "read" => branches[idx].name # head
    /\ head # NoHead => backend[head] \in Commits
    /\ deleted_branch # None => deleted_branch.name # head

CurrentIsSkipped ==
    (pc = "loop" /\ idx <= Len(branches) /\ branches[idx].name = head) =>
        /\ out' = [line |-> "Ignoring", name |-> head]
        /\ nread' = nread
        /\ backend' = backend
        /\ deleted_branch' = deleted_branch
        /\ prompt' = prompt
        /\ idx' = idx + 1
        /\ pc' = "loop"

CurrentBranchSkipped ==
    /\ []CurrentNeverOffered
    /\ [][CurrentIsSkipped]_vars

\* the current branch was second in the queue, after a branch that was deleted
SkippedInTheMiddle ==
    /\ pc = "loop" /\ idx = 3 /\ Len(branches) = 3
    /\ branches[2].name = head
    /\ out = [line |-> "Ignoring", name |-> head]
    /\ nread = 1
    /\ backend[branches[1].name] = Absent
    /\ backend[head] \in Commits

----------------------------------------------------------------------------
(* C7 *)

\* get_branches has returned Ok and nothing has been read since: the backend
\* is still the one it listed
JustListed ==
    /\ pc \in {"loop", "read", "cleanup", "exited"}
    /\ NoError
    /\ nread = 0

LastCommitTime(k) == Seconds(k) + 60 * OffsetMinutes(k)

\* C7: the queue holds every local branch but master exactly once, with the
\* commit it points at, holds no master, and is in non-decreasing order of
\* commit seconds plus offset minutes.
QueueIsSortedListing ==
    JustListed =>
        /\ \A n \in Names \ {"master"} :
              Cardinality({i \in 1..Len(branches) : branches[i].name = n})
                 = IF backend[n] = Absent THEN 0 ELSE 1
        /\ \A i \in 1..Len(branches) :
              /\ branches[i].name # "master"
              /\ branches[i].id = backend[branches[i].name]
        /\ \A i \in 1..Len(branches) : \A j \in 1..Len(branches) :
              i < j => LastCommitTime(branches[i].id) <= LastCommitTime(branches[j].id)

\* three branches and a master; the order by time is not the order by seconds
ListedOutOfSecondsOrder ==
    /\ JustListed
    /\ backend["master"] # Absent
    /\ Len(branches) = 3
    /\ Seconds(branches[1].id) > Seconds(branches[2].id)
    /\ LastCommitTime(branches[2].id) = LastCommitTime(branches[3].id)
    /\ branches[2].id # branches[3].id

----------------------------------------------------------------------------
(* C8 *)

\* C8: a '?' is answered by the legend and a prompt for the same branch with
\* the same name, id prefix and time; queue position, backend and Undo Buffer
\* do not change.
HelpKeepsTheTurn ==
    [][(pc = "read" /\ JustRead(Key_help)) =>
          /\ out' = [line |-> "? - Show this help text"]
          /\ pc' = "read"
          /\ idx' = idx /\ branches' = branches
          /\ prompt' = prompt
          /\ prompt'.name = branches[idx].name
          /\ prompt'.time = branches[idx].time
          /\ backend' = backend
          /\ deleted_branch' = deleted_branch]_vars

\* three '?' in a row at the second branch, with a deleted branch buffered
HelpedThrice ==
    /\ pc = "read" /\ idx = 2
    /\ last_read = Key_help
    /\ ask_depth = 4
    /\ nread = 4
    /\ deleted_branch # None
    /\ prompt.name = branches[2].name

----------------------------------------------------------------------------
(* C9 *)

Vocabulary == {Key_k, Key_d, Key_u, Key_q, Key_help}

InvalidIsFatal ==
    (pc = "read" /\ nread' = nread + 1 /\ last_read' \in Bytes \ Vocabulary) =>
        /\ result' = [kind |-> "InvalidInput", char |-> last_read']
        /\ pc' = "cleanup"
        /\ backend' = backend
        /\ deleted_branch' = deleted_branch
        /\ prompt' = prompt

AfterInvalidNothing ==
    result.kind = "InvalidInput" =>
        /\ backend' = backend
        /\ deleted_branch' = deleted_branch
        /\ prompt' = prompt
        /\ nread' = nread
        /\ out' = out
        /\ result' = result

InvalidExitsNonZero ==
    result.kind = "InvalidInput" =>
        /\ pc \in {"cleanup", "exited"}
        /\ pc = "exited" => status \notin {0, NoStatus}

\* C9: a byte outside k, d, u, q, ? ends the closure with InvalidInput of that
\* character, with backend and Undo Buffer as they were; after it nothing is
\* prompted, read, written or modified, and the exit status is not 0.
InvalidInputIsFatal ==
    /\ [][InvalidIsFatal]_vars
    /\ [][AfterInvalidNothing]_vars
    /\ []InvalidExitsNonZero

\* x at the second branch, after a delete and an undo
InvalidAtSecond ==
    /\ pc = "exited"
    /\ result = [kind |-> "InvalidInput", char |-> Key_x]
    /\ status = 1
    /\ idx = 2 /\ Len(branches) = 3
    /\ nread = 3
    /\ pending = <<>> /\ backend = before_delete

----------------------------------------------------------------------------
(* C10 *)

\* C10: on every path by which the process exits raw mode has been disabled
\* exactly once and is off.
RawModeRestored ==
    pc = "exited" => ~raw /\ disables = 1

----------------------------------------------------------------------------
(* C11 *)

\* a delete or an undo has just failed in the backend
BackendJustFailed(key) ==
    /\ pc = "read"
    /\ JustRead(key)
    /\ result'.kind = "GitError"

BackendFailureAborts ==
    (BackendJustFailed(Key_d) \/ BackendJustFailed(Key_u)) =>
        /\ pc' = "cleanup"
        /\ backend' = backend
        /\ deleted_branch' = deleted_branch
        /\ prompt' = prompt
        /\ idx' = idx

\* the review loop was left with a backend error
AbortedInLoop == result.kind = "GitError" /\ nread > 0

AfterAbortNothing ==
    AbortedInLoop =>
        /\ nread' = nread
        /\ prompt' = prompt
        /\ out' = out
        /\ backend' = backend
        /\ deleted_branch' = deleted_branch
        /\ result' = result

AbortExitsWithFailure ==
    AbortedInLoop =>
        /\ pc \in {"cleanup", "exited"}
        /\ pc = "exited" => ~raw /\ disables = 1 /\ status \notin {0, NoStatus}

\* C11: a failed delete or a failed undo ends the closure with the backend
\* error, leaving backend and Undo Buffer as they were; after it no byte is
\* read, nothing is prompted, written or modified, raw mode is switched off
\* and the exit status is not 0.
BackendErrorAborts ==
    /\ [][BackendFailureAborts]_vars
    /\ [][AfterAbortNothing]_vars
    /\ []AbortExitsWithFailure

\* the delete of the second branch failed while the first was buffered
FailedSecondDelete ==
    /\ pc = "exited"
    /\ result = GitError
    /\ last_read = Key_d
    /\ nread = 2 /\ idx = 2
    /\ status = 1 /\ ~raw
    /\ deleted_branch # None /\ deleted_branch.name = branches[1].name
    /\ backend[branches[2].name] = branches[2].id

----------------------------------------------------------------------------
(* C12 *)

\* raw mode was enabled and the process ended, not with Ok, before any read:
\* the listing failed
ListingFailed ==
    /\ pc = "exited"
    /\ enables = 1
    /\ nread = 0
    /\ result # Ok

\* C12: when the listing fails, get_branches returns an error, which main
\* reports after switching raw mode off, and the exit status is 1; no branch
\* is prompted or modified.
ListingErrorIsReturned ==
    ListingFailed =>
        /\ result.kind \in {"GitError", "FromUtf8Error"}
        /\ ~raw /\ disables = 1
        /\ status = 1
        /\ prompt = NoPrompt
        /\ backend = before_delete

----------------------------------------------------------------------------
(* C13 *)

\* a 'u' has just been read and carried out
UndoCarriedOut ==
    /\ pc = "read"
    /\ JustRead(Key_u)
    /\ result' = result

UndoRepromptsSame ==
    UndoCarriedOut =>
        /\ pc' = "read"
        /\ idx' = idx
        /\ prompt'.name = branches[idx].name
        /\ prompt' = prompt

AdvanceNeedsOwnAnswer ==
    (pc = "read" /\ idx' # idx) =>
        /\ idx' = idx + 1
        /\ nread' = nread + 1
        /\ last_read' \in {Key_k, Key_d, Key_q}

\* C13: after a 'u', with the Undo Buffer full or empty, the next prompt is
\* for the same branch, and the queue moves past a prompted branch only on
\* its own k, d or q.
UndoDoesNotKeep ==
    /\ [][UndoRepromptsSame]_vars
    /\ [][AdvanceNeedsOwnAnswer]_vars

\* d at the first branch; at the second a u that restores the first, one
\* more prompt, then d
DeletedAfterUndos ==
    /\ nread = 4 /\ idx = 3
    /\ last_read = Key_d
    /\ pc = "loop"
    /\ backend[branches[1].name] = branches[1].id
    /\ backend[branches[2].name] = Absent
    /\ ~branches[1].is_head /\ ~branches[2].is_head

----------------------------------------------------------------------------
(* C14 *)

\* the Undo Buffer is empty or holds one record of the queue
BufferHoldsAtMostOne ==
    \/ deleted_branch = None
    \/ \E i \in 1..Len(branches) : deleted_branch = branches[i]

\* it holds the branch of the last delete that no undo has followed
BufferIsLastDelete ==
    /\ deleted_branch = None <=> pending = <<>>
    /\ pending # <<>> =>
          /\ deleted_branch.name = Last(pending)
          /\ deleted_branch.id = before_delete[Last(pending)]

DeleteReplaces ==
    (pc = "read" /\ JustRead(Key_d) /\ result' = result) =>
        /\ deleted_branch' = branches[idx]
        /\ backend'[branches[idx].name] = Absent

UndoEmpties ==
    UndoCarriedOut => deleted_branch' = None

\* C14: the Undo Buffer is empty or holds exactly one record, the branch of
\* the most recent successful delete that no undo has followed; a successful
\* delete puts its branch there and an undo leaves it empty.
BufferInvariant ==
    /\ []BufferHoldsAtMostOne
    /\ []BufferIsLastDelete
    /\ [][DeleteReplaces]_vars
    /\ [][UndoEmpties]_vars

\* after d, u, d the buffer holds the second deleted branch
BufferReplaced ==
    /\ nread = 3 /\ idx = 3
    /\ last_read = Key_d
    /\ deleted_branch = branches[2]
    /\ pending = <<branches[2].name>>
    /\ lost = {}
    /\ backend[branches[1].name] = branches[1].id

----------------------------------------------------------------------------
(* C15 *)

\* the loop turns to the branch at idx: it prompts for it or skips it
TurnsToBranch ==
    /\ pc = "loop"
    /\ idx <= Len(branches)
    /\ pc' = "read" \/ idx' = idx + 1

\* every earlier branch was ignored, kept or deleted: the last answer read,
\* which was the answer for the last branch prompted, is k or d
EarlierHaveOutcome ==
    TurnsToBranch => (nread = 0 \/ last_read \in {Key_k, Key_d})

InQueueOrder ==
    /\ idx' \in {idx, idx + 1}
    /\ pc \in {"loop", "read"} => branches' = branches
    /\ pc' = "read" => prompt'.name = branches'[idx'].name

\* C15: the loop prompts for or skips a branch only when every earlier one
\* has been ignored, kept or deleted; it goes through the queue one index at
\* a time, never back, every prompt is for the branch at the index, and the
\* queue does not change.
StrictlySequential ==
    /\ [][EarlierHaveOutcome]_vars
    /\ [][pc # "list" => InQueueOrder]_vars

----------------------------------------------------------------------------
(* C16 *)

\* C16: when stdin.next() returns None the same prompt is written for the
\* same branch and the read is made again; queue position, backend, Undo
\* Buffer and result are unchanged and nothing else is written.
EmptyReadRetries ==
    [][(pc = "read" /\ JustRead(NoByte)) =>
          /\ pc' = "read"
          /\ idx' = idx /\ branches' = branches
          /\ prompt' = prompt
          /\ prompt'.name = branches[idx].name
          /\ backend' = backend
          /\ deleted_branch' = deleted_branch
          /\ result' = Running
          /\ out' = out]_vars

\* three empty reads in a row at the second branch, with a branch buffered
ThreeEmptyReads ==
    /\ pc = "read" /\ idx = 2
    /\ last_read = NoByte
    /\ nread = 4
    /\ ask_depth = 4
    /\ out.line = "Deleted branch"
    /\ deleted_branch # None

----------------------------------------------------------------------------
(* C17 *)

QueueExhausted == pc = "loop" /\ idx > Len(branches)

\* the for loop of main will not turn to another branch
LoopEnded == pc \in {"cleanup", "exited"} \/ QueueExhausted

QuitChosen == nread > 0 /\ last_read = Key_q

FatalError == result \notin {Running, Ok}

EndsExactlyWhen ==
    /\ (QuitChosen \/ FatalError \/ QueueExhausted) => LoopEnded
    /\ (LoopEnded /\ enables = 1) =>
          (QuitChosen \/ FatalError \/ idx > Len(branches) \/ branches = <<>>)

\* stdin has stopped delivering at a prompt
InputDried == pc = "read" /\ nread = MaxKeys

EventuallyExits == <>(pc = "exited" \/ InputDried)

\* C17: the review loop has ended exactly when the queue is exhausted, Quit
\* was chosen or a fatal error occurred, and as long as stdin delivers at
\* each prompt an answer other than u and ?, the process exits.
LoopEnds == []EndsExactlyWhen /\ EventuallyExits

----------------------------------------------------------------------------
(* C18 *)

\* the same branch is prompted again after a u, a ? or an empty read
Reprompted ==
    /\ pc = "read" /\ pc' = "read"
    /\ nread' = nread + 1

\* C18: prompting again for the same branch does not add a frame: the number
\* of live frames of act_on_branch and get_branch_action_from_user is the
\* same after it as before.
RepromptIsIterative ==
    [][Reprompted => act_depth' + ask_depth' <= act_depth + ask_depth]_vars

----------------------------------------------------------------------------
(* C19 *)

\* C19: while the Undo Buffer holds a record, the backend has no branch of
\* that name, the record is a branch of the queue at an index before the one
\* the loop is at, and so the create of an undo finds the name free.
BufferedIsAbsentAndEarlier ==
    deleted_branch # None =>
        /\ backend[deleted_branch.name] = Absent
        /\ \E i \in 1..Len(branches) : i < idx /\ branches[i] = deleted_branch
        /\ CanCreate(backend, deleted_branch)

\* the first branch is buffered while the third is prompted
BufferedTwoBack ==
    /\ pc = "read" /\ idx = 3
    /\ deleted_branch = branches[1]
    /\ backend[branches[1].name] = Absent
    /\ backend[branches[2].name] = branches[2].id
    /\ ~branches[2].is_head

----------------------------------------------------------------------------
(* C20 *)

Range(q) == {q[i] : i \in 1..Len(q)}

Queued == {branches[i].name : i \in 1..Len(branches)}

\* a branch is removed only by a d at its own prompt, created only by a u
\* from the record in the Undo Buffer; master and the current branch never
\* change
OnlyTwoMutations ==
    /\ \A n \in Names :
          backend'[n] # backend[n] =>
              \/ /\ backend'[n] = Absent
                 /\ pc = "read" /\ JustRead(Key_d)
                 /\ n = branches[idx].name
              \/ /\ backend[n] = Absent
                 /\ pc = "read" /\ JustRead(Key_u)
                 /\ deleted_branch # None
                 /\ n = deleted_branch.name
                 /\ backend'[n] = deleted_branch.id
    /\ backend'["master"] = backend["master"]
    /\ head # NoHead => backend'[head] = backend[head]

\* of the queued branches, those deleted and not restored are absent and all
\* others are at the commit they were listed with
AbsentAreTheDeleted ==
    /\ {n \in Queued : backend[n] = Absent} = lost \cup Range(pending)
    /\ \A i \in 1..Len(branches) :
          backend[branches[i].name] \in {branches[i].id, Absent}
    /\ head # NoHead => backend[head] \in Commits

\* C20: the backend changes only by the removal of the prompted branch on d
\* and by the creation of the buffered branch, at its commit, on u; master,
\* the current branch and the branches not deleted stay at their commits, and
\* the absent branches are those deleted and not restored.
BackendOnlyByDeleteAndUndo ==
    /\ [][OnlyTwoMutations]_vars
    /\ []AbsentAreTheDeleted

\* d, d, u, k on a queue of three: the first is absent, the second restored
OneLostOneRestored ==
    /\ pc = "exited" /\ status = 0
    /\ nread = 4 /\ Len(branches) = 3
    /\ last_read = Key_k
    /\ lost = {branches[1].name} /\ pending = <<>>
    /\ backend[branches[1].name] = Absent
    /\ backend[branches[2].name] = branches[2].id
    /\ backend[branches[3].name] = branches[3].id
    /\ backend["master"] = "K3"

====
